---- MODULE Spec2Model ----
(***************************************************************************)
(* Activity attestation (src/main.rs): ActivityCircuit::new, the           *)
(* ActivityVerifier (new, generate_proof, verify_proof, verify_activity)   *)
(* and hash_activity, over an ideal Groth16 backend.                       *)
(*                                                                         *)
(* Instants (chrono DateTime<Utc>) are integers counted in ticks since the *)
(* Unix epoch, TicksPerSec ticks to the second.  A [u8; 32] is a sequence  *)
(* of 32 bytes; an Fr element is its canonical representative in           *)
(* [0, r), written as 32 big-endian bytes; a u64 is 8 big-endian bytes.    *)
(***************************************************************************)
EXTENDS Integers, Sequences, FiniteSets, TLC

\* ------------------------------------------------------------------ bounds

\* Sub-second resolution of an instant (chrono keeps nanoseconds).
TicksPerSec == 2

\* ------------------------------------------------------- program constants

ByteLen == 32

U64Len == 8

SecsPerDay == 86400

FreshDays == 30

\* The order r of the BN254 scalar field, 32 big-endian bytes
\* (0x30644e72e131a029b85045b68181585d2833e84879b9709143e1f593f0000001).
FrModulusBytes ==
    << 48, 100,  78, 114, 225,  49, 160,  41, 184,  80,  69, 182, 129, 129,  88,  93,
       40,  51, 232,  72, 121, 185, 112, 145,  67, 225, 245, 147, 240,   0,   0,   1 >>

Zero32 == [i \in 1..ByteLen |-> 0]

One32 == [i \in 1..ByteLen |-> 1]

\* --------------------------------------------------------- byte arithmetic

\* a >= b for two big-endian byte strings of one length.
RECURSIVE GeqFrom(_, _, _)
GeqFrom(a, b, i) ==
    IF i > Len(a) THEN TRUE
    ELSE IF a[i] > b[i] THEN TRUE
    ELSE IF a[i] < b[i] THEN FALSE
    ELSE GeqFrom(a, b, i + 1)

GeqBytes(a, b) == GeqFrom(a, b, 1)

\* Bytes 1..i of a - b with `borrow` taken from byte i, least significant
\* byte last.
RECURSIVE SubFrom(_, _, _, _)
SubFrom(a, b, i, borrow) ==
    IF i = 0 THEN <<>>
    ELSE LET d == a[i] - b[i] - borrow
         IN  Append(SubFrom(a, b, i - 1, IF d < 0 THEN 1 ELSE 0), d % 256)

\* a - b for a >= b, byte by byte.
SubBytes(a, b) == SubFrom(a, b, Len(a), 0)

\* The integer n >= 0 as len big-endian bytes (n below 2^31).
RECURSIVE Pow(_, _)
Pow(b, e) == IF e = 0 THEN 1 ELSE b * Pow(b, e - 1)

ByteOf(n, len, i) == IF len - i >= 4 THEN 0 ELSE (n \div Pow(256, len - i)) % 256

ToBytes(n, len) == [i \in 1..len |-> ByteOf(n, len, i)]

\* `x as u64` for an i64 x: x modulo 2^64, which for x < 0 is the two's
\* complement 2^64 - 1 - (-x - 1).
AsU64(x) ==
    IF x >= 0 THEN ToBytes(x, U64Len)
    ELSE [i \in 1..U64Len |-> 255 - ByteOf(-x - 1, U64Len, i)]

\* hash_activity: SHA-256 of the text, tabulated for the texts the program
\* and its test use.
hash_activity(activity) ==
    CASE activity = "valid_activity" ->
           << 175, 166, 111,  51, 221, 107, 242, 223,  62, 214, 168, 226, 112,  99, 219, 140,
              182, 243, 216,  88,  91, 139, 188, 191, 227, 193,  63, 238, 181, 111, 121, 235 >>
      [] activity = "old_activity" ->
           << 253, 249, 240,  92,  85,  43, 124,   9,  62, 173,  15, 174, 167,  31,  59, 212,
               43, 135,  71,  11,  91, 231,  10, 118, 144, 187, 137, 135,  63, 111, 208, 147 >>
      [] activity = "some_activity" ->
           <<  52, 248,  73, 127, 150, 224, 187,   9, 226,  95,  54, 248, 157, 150, 168,  29,
              136, 229, 125,  22, 149, 173,   1, 162, 133, 192, 190, 186,  85, 238,  30, 248 >>

Activities == {"valid_activity", "old_activity", "some_activity"}

\* --------------------------------------------------------------- encoders

\* The big-endian integer of a byte string reduced modulo r: r is taken off
\* while the value is not below it (2^256 < 6r).
RECURSIVE ReduceModOrder(_)
ReduceModOrder(bytes) ==
    IF GeqBytes(bytes, FrModulusBytes)
    THEN ReduceModOrder(SubBytes(bytes, FrModulusBytes))
    ELSE bytes

\* The byte strings the model's records carry, and their reductions computed
\* once.
ByteStrings == {Zero32, One32, FrModulusBytes} \cup {hash_activity(a) : a \in Activities}

RECURSIVE TableOf(_)
TableOf(S) ==
    IF S = {} THEN <<>>
    ELSE LET b == CHOOSE x \in S : TRUE
         IN  (b :> ReduceModOrder(b)) @@ TableOf(S \ {b})

FrTable == TableOf(ByteStrings)

\* Fr::from_be_bytes_mod_order.
from_be_bytes_mod_order(bytes) ==
    IF bytes \in DOMAIN FrTable THEN FrTable[bytes] ELSE ReduceModOrder(bytes)

\* Fr::from(u64): 2^64 < r, so the value itself.
FrFromU64(u) == [i \in 1..(ByteLen - U64Len) |-> 0] \o u

\* DateTime::timestamp(): whole seconds since the epoch, rounded down.
timestamp(t) == t \div TicksPerSec

\* Duration::days(n), in ticks.
Duration_days(n) == n * SecsPerDay * TicksPerSec

\* ------------------------------------------------------------ the circuit

\* ActivityCircuit::new taking the digest's bytes as they are, unreduced.
ActivityCircuit_new_unreduced(ts, activity_hash, user_commitment) ==
    [timestamp |-> AsU64(timestamp(ts)),
     activity_hash |-> activity_hash,
     user_commitment |-> from_be_bytes_mod_order(user_commitment)]

\* ActivityCircuit::new: the RelationInstance of an activity record.
ActivityCircuit_new(ts, activity_hash, user_commitment) ==
    LET timestamp_u64 == AsU64(timestamp(ts))
        activity_hash_fr == from_be_bytes_mod_order(activity_hash)
        user_commitment_fr == from_be_bytes_mod_order(user_commitment)
    IN  [timestamp |-> timestamp_u64,
         activity_hash |-> activity_hash_fr,
         user_commitment |-> user_commitment_fr]

NoCircuit == [timestamp |-> <<>>, activity_hash |-> <<>>, user_commitment |-> <<>>]

\* The relation's predicate on an instance: none is enforced.
RelationHolds(circuit) == TRUE

\* The instance's public assignment, in the order the relation declares it.
PublicAssignment(circuit) == << FrFromU64(circuit.timestamp), circuit.activity_hash >>

\* ------------------------------------------------------ the proof backend
\* An ideal Groth16: a proof names the key it was made under and the
\* statement it proves.  fault is the primitive of the backend that fails
\* ("none": the backend is complete); the backend computes deterministically
\* (every call seeds test_rng() afresh), so a fault is fixed for a run.

Faults == {"none", "setup", "prove", "verify_err", "reject"}

NoProof == [key |-> 0, statement |-> <<>>, sat |-> FALSE]

\* The parameters of the n-th setup: a proving key, which holds its verifying
\* key (params.vk).  No setup has the number 0.
ParamsOf(n) == [id |-> n, vk |-> [id |-> n]]

\* generate_random_parameters, run as the n-th setup.
generate_random_parameters(circuit, fault, n) ==
    IF fault = "setup"
    THEN [ok |-> FALSE, val |-> ParamsOf(0)]
    ELSE [ok |-> TRUE, val |-> ParamsOf(n)]

prepare_verifying_key(vk) == [vk |-> vk, prepared |-> TRUE]

NoKeys == [proving_key |-> ParamsOf(0), verifying_key |-> [vk |-> ParamsOf(0).vk, prepared |-> FALSE]]

create_random_proof(circuit, proving_key, fault) ==
    IF fault = "prove"
    THEN [ok |-> FALSE, val |-> NoProof]
    ELSE [ok |-> TRUE,
          val |-> [key |-> proving_key.id,
                   statement |-> PublicAssignment(circuit),
                   sat |-> RelationHolds(circuit)]]

\* verify_proof of ark_groth16: an error for a vector of the wrong length,
\* else whether the proof proves this statement under this key.
Groth16_verify_proof(verifying_key, proof, public_inputs, fault) ==
    IF fault = "verify_err" \/ Len(public_inputs) # Len(proof.statement)
    THEN [ok |-> FALSE, val |-> FALSE]
    ELSE [ok |-> TRUE,
          val |-> /\ fault # "reject"
                  /\ proof.key = verifying_key.vk.id
                  /\ proof.sat
                  /\ public_inputs = proof.statement]

\* ----------------------------------------------------------- the verifier
\* What one call did: the operation, its argument and the clock it read, how
\* it returned, and the backend calls it made with what they were given.

NoData == [timestamp |-> 0, activity_hash |-> <<>>, user_commitment |-> <<>>]

NoCall ==
    [op |-> "none", data |-> NoData, now |-> 0, returned |-> "none", result |-> FALSE,
     cause |-> "none", proveCalls |-> 0, verifyCalls |-> 0, circuit |-> NoCircuit,
     proving_key |-> NoKeys.proving_key, verifying_key |-> NoKeys.verifying_key,
     public_inputs |-> <<>>, order |-> "none", proof |-> NoProof]

\* generate_proof handing the two 32-byte arguments of ActivityCircuit::new
\* over in the wrong order.
generate_proof_swapped_args(self, activity_data, fault) ==
    LET circuit == ActivityCircuit_new(activity_data.timestamp,
                                       activity_data.user_commitment,
                                       activity_data.activity_hash)
        r == create_random_proof(circuit, self.proving_key, fault)
    IN  [ok |-> r.ok, proof |-> r.val, circuit |-> circuit,
         proving_key |-> self.proving_key]

\* ActivityVerifier::generate_proof: the circuit of the record, proved under
\* the verifier's proving key; a backend error becomes Err("Failed to
\* generate proof").
generate_proof(self, activity_data, fault) ==
    LET circuit == ActivityCircuit_new(activity_data.timestamp,
                                       activity_data.activity_hash,
                                       activity_data.user_commitment)
        r == create_random_proof(circuit, self.proving_key, fault)
    IN  [ok |-> r.ok, proof |-> r.val, circuit |-> circuit,
         proving_key |-> self.proving_key]

\* verify_proof with the backend's error unwrapped: the call panics.
verify_proof_unwrap(self, proof, public_inputs, fault) ==
    LET r == Groth16_verify_proof(self.verifying_key, proof, public_inputs, fault)
    IN  [returned |-> IF r.ok THEN "value" ELSE "panic",
         result |-> r.ok /\ r.val,
         cause |-> IF ~r.ok THEN "verify_error" ELSE IF r.val THEN "accepted" ELSE "rejected",
         verifying_key |-> self.verifying_key]

\* verify_proof returning is_ok(): true for any verdict, false for an error.
verify_proof_is_ok(self, proof, public_inputs, fault) ==
    LET r == Groth16_verify_proof(self.verifying_key, proof, public_inputs, fault)
    IN  [returned |-> "value",
         result |-> r.ok,
         cause |-> IF ~r.ok THEN "verify_error" ELSE IF r.val THEN "accepted" ELSE "rejected",
         verifying_key |-> self.verifying_key]

\* ActivityVerifier::verify_proof: the backend's verdict under the verifier's
\* verifying key, unwrap_or(false).
verify_proof(self, proof, public_inputs, fault) ==
    LET r == Groth16_verify_proof(self.verifying_key, proof, public_inputs, fault)
    IN  [returned |-> "value",
         result |-> IF r.ok THEN r.val ELSE FALSE,
         cause |-> IF ~r.ok THEN "verify_error" ELSE IF r.val THEN "accepted" ELSE "rejected",
         verifying_key |-> self.verifying_key]

\* The public inputs in the wrong order.
PreparedInputs_swapped(activity_data) ==
    << from_be_bytes_mod_order(activity_data.activity_hash),
       FrFromU64(AsU64(timestamp(activity_data.timestamp))) >>

\* The public inputs verify_activity prepares from the record.
PreparedInputs(activity_data) ==
    << FrFromU64(AsU64(timestamp(activity_data.timestamp))),
       from_be_bytes_mod_order(activity_data.activity_hash) >>

\* The freshness test with <= for <: the edge of the window is stale.
IsStale_inclusive(ts, now) ==
    LET one_month_ago == now - Duration_days(FreshDays)
    IN  ts <= one_month_ago

\* The freshness test of verify_activity: older than one_month_ago is stale.
IsStale(ts, now) ==
    LET one_month_ago == now - Duration_days(FreshDays)
    IN  ts < one_month_ago

\* verify_activity generating the proof before it tests the timestamp.
verify_activity_prove_first(self, activity_data, now, fault) ==
    LET base == [NoCall EXCEPT !.op = "verify_activity", !.data = activity_data,
                               !.now = now, !.returned = "value"]
        g == generate_proof(self, activity_data, fault)
        proved == [base EXCEPT !.proveCalls = 1, !.circuit = g.circuit,
                               !.proving_key = g.proving_key]
    IN  IF ~g.ok
        THEN [proved EXCEPT !.result = FALSE, !.cause = "prove_failed"]
        ELSE IF IsStale(activity_data.timestamp, now)
        THEN [proved EXCEPT !.result = FALSE, !.cause = "stale"]
        ELSE
          LET public_inputs == PreparedInputs(activity_data)
              v == verify_proof(self, g.proof, public_inputs, fault)
          IN  [proved EXCEPT !.verifyCalls = 1, !.proof = g.proof,
                             !.public_inputs = public_inputs, !.order = "prepared",
                             !.verifying_key = v.verifying_key,
                             !.returned = v.returned, !.result = v.result,
                             !.cause = v.cause]

\* verify_activity taking the timestamp input from the clock it has just
\* read, not from the record.
verify_activity_clock_input(self, activity_data, now, fault) ==
    LET base == [NoCall EXCEPT !.op = "verify_activity", !.data = activity_data,
                               !.now = now, !.returned = "value"]
    IN  IF IsStale(activity_data.timestamp, now)
        THEN [base EXCEPT !.result = FALSE, !.cause = "stale"]
        ELSE
          LET g == generate_proof(self, activity_data, fault)
              proved == [base EXCEPT !.proveCalls = 1, !.circuit = g.circuit,
                                     !.proving_key = g.proving_key]
          IN  IF ~g.ok
              THEN [proved EXCEPT !.result = FALSE, !.cause = "prove_failed"]
              ELSE
                LET public_inputs == << FrFromU64(AsU64(timestamp(now))),
                                        from_be_bytes_mod_order(activity_data.activity_hash) >>
                    v == verify_proof(self, g.proof, public_inputs, fault)
                IN  [proved EXCEPT !.verifyCalls = 1, !.proof = g.proof,
                                   !.public_inputs = public_inputs, !.order = "prepared",
                                   !.verifying_key = v.verifying_key,
                                   !.returned = v.returned, !.result = v.result,
                                   !.cause = v.cause]

\* ActivityVerifier::verify_activity.
verify_activity(self, activity_data, now, fault) ==
    LET base == [NoCall EXCEPT !.op = "verify_activity", !.data = activity_data,
                               !.now = now, !.returned = "value"]
    IN  IF IsStale(activity_data.timestamp, now)
        THEN [base EXCEPT !.result = FALSE, !.cause = "stale"]
        ELSE
          LET g == generate_proof(self, activity_data, fault)
              proved == [base EXCEPT !.proveCalls = 1, !.circuit = g.circuit,
                                     !.proving_key = g.proving_key]
          IN  IF ~g.ok
              THEN [proved EXCEPT !.result = FALSE, !.cause = "prove_failed"]
              ELSE
                LET public_inputs == PreparedInputs(activity_data)
                    v == verify_proof(self, g.proof, public_inputs, fault)
                IN  [proved EXCEPT !.verifyCalls = 1, !.proof = g.proof,
                                   !.public_inputs = public_inputs, !.order = "prepared",
                                   !.verifying_key = v.verifying_key,
                                   !.returned = v.returned, !.result = v.result,
                                   !.cause = v.cause]

\* ------------------------------------------------------------------ inputs

\* The first clock reading, in days since the epoch: early enough that the
\* freshness window reaches back before the epoch, where `as u64` wraps.
StartDay == 29

ClockStart == Duration_days(StartDay)

\* The readings of Utc::now(): the first one, a tick later, a second later.
ClockValues == {ClockStart, ClockStart + 1, ClockStart + TicksPerSec}

\* Record timestamps: now, the edge of the window, a tick and a second past
\* it, 31 days old, and the epoch.
Timestamps ==
    {ClockStart,
     ClockStart - Duration_days(FreshDays),
     ClockStart - Duration_days(FreshDays) - 1,
     ClockStart - Duration_days(FreshDays) - TicksPerSec,
     ClockStart - Duration_days(FreshDays + 1),
     0}

\* Digests: zero, a SHA-256 digest above the modulus, and the modulus itself.
Digests == {Zero32, hash_activity("valid_activity"), FrModulusBytes}

Commitments == {Zero32, One32}

Records ==
    [timestamp : Timestamps, activity_hash : Digests, user_commitment : Commitments]

\* ------------------------------------------------------------------- state

VARIABLES
    phase,       \* "Init", "Operational", or "Aborted" (new() panicked)
    keys,        \* the verifier's proving_key and verifying_key
    setupCalls,  \* backend setups run so far
    now,         \* the last reading of the clock, Utc::now()
    fault,       \* the backend's fault, fixed for the run
    last,        \* the last call on the verifier
    first        \* the first of the current run of verify_activity calls on one
                 \* record; a call of anything else ends the run

vars == <<phase, keys, setupCalls, now, fault, last, first>>

NoFirst == [seen |-> FALSE, data |-> NoData, now |-> 0, result |-> FALSE]

Init ==
    /\ phase = "Init"
    /\ keys = NoKeys
    /\ setupCalls = 0
    /\ now = ClockStart
    /\ fault \in Faults
    /\ last = NoCall
    /\ first = NoFirst

\* new() going on without keys when the setup fails.
New_degraded ==
    /\ phase = "Init"
    /\ \E t \in ClockValues : t >= now /\ now' = t
    /\ LET circuit == ActivityCircuit_new(now', Zero32, Zero32)
           params == generate_random_parameters(circuit, fault, setupCalls + 1)
       IN  /\ setupCalls' = setupCalls + 1
           /\ keys' = IF params.ok
                      THEN [proving_key |-> params.val,
                            verifying_key |-> prepare_verifying_key(params.val.vk)]
                      ELSE keys
           /\ phase' = "Operational"
    /\ UNCHANGED <<fault, last, first>>

\* ActivityVerifier::new: one setup over the placeholder circuit; a setup
\* error panics (unwrap) and no verifier exists.
New ==
    /\ phase = "Init"
    /\ \E t \in ClockValues : t >= now /\ now' = t
    /\ LET circuit == ActivityCircuit_new(now', Zero32, Zero32)
           params == generate_random_parameters(circuit, fault, setupCalls + 1)
       IN  /\ setupCalls' = setupCalls + 1
           /\ IF params.ok
              THEN /\ keys' = [proving_key |-> params.val,
                               verifying_key |-> prepare_verifying_key(params.val.vk)]
                   /\ phase' = "Operational"
              ELSE /\ keys' = keys
                   /\ phase' = "Aborted"
    /\ UNCHANGED <<fault, last, first>>

\* generate_proof running a setup of its own and keeping its keys.
GenerateProofCall_resetup ==
    /\ phase = "Operational"
    /\ setupCalls < 2
    /\ \E activity_data \in Records :
         LET circuit == ActivityCircuit_new(activity_data.timestamp,
                                           activity_data.activity_hash,
                                           activity_data.user_commitment)
             params == generate_random_parameters(circuit, fault, setupCalls + 1)
             self == [proving_key |-> params.val,
                      verifying_key |-> prepare_verifying_key(params.val.vk)]
             g == generate_proof(self, activity_data, fault)
         IN  /\ keys' = self
             /\ setupCalls' = setupCalls + 1
             /\ last' = [NoCall EXCEPT !.op = "generate_proof", !.data = activity_data,
                                       !.returned = "value", !.result = g.ok,
                                       !.cause = IF g.ok THEN "proved" ELSE "prove_failed",
                                       !.proveCalls = 1, !.circuit = g.circuit,
                                       !.proving_key = g.proving_key, !.proof = g.proof]
    /\ first' = NoFirst
    /\ UNCHANGED <<phase, now, fault>>

\* A call of generate_proof(&self, &activity_data).
GenerateProofCall ==
    /\ phase = "Operational"
    /\ \E activity_data \in Records :
         LET g == generate_proof(keys, activity_data, fault)
         IN  last' = [NoCall EXCEPT !.op = "generate_proof", !.data = activity_data,
                                    !.returned = "value", !.result = g.ok,
                                    !.cause = IF g.ok THEN "proved" ELSE "prove_failed",
                                    !.proveCalls = 1, !.circuit = g.circuit,
                                    !.proving_key = g.proving_key, !.proof = g.proof]
    /\ first' = NoFirst
    /\ UNCHANGED <<phase, keys, setupCalls, now, fault>>

\* The vectors a caller hands to verify_proof with a proof of a record: the
\* prepared one, its two entries swapped, its first entry alone.
InputsIn(order, activity_data) ==
    LET p == PreparedInputs(activity_data)
    IN  CASE order = "prepared" -> p
          [] order = "swapped" -> << p[2], p[1] >>
          [] order = "short" -> << p[1] >>

\* A call of verify_proof(&self, &proof, &public_inputs) with the proof the
\* last call produced.
VerifyProofCall ==
    /\ phase = "Operational"
    /\ last.proof # NoProof
    /\ \E order \in {"prepared", "swapped", "short"} :
         LET public_inputs == InputsIn(order, last.data)
             v == verify_proof(keys, last.proof, public_inputs, fault)
         IN  last' = [NoCall EXCEPT !.op = "verify_proof", !.data = last.data,
                                    !.returned = v.returned,
                                    !.result = v.result, !.cause = v.cause,
                                    !.verifyCalls = 1, !.circuit = last.circuit,
                                    !.verifying_key = v.verifying_key,
                                    !.public_inputs = public_inputs, !.order = order,
                                    !.proof = last.proof]
    /\ first' = NoFirst
    /\ UNCHANGED <<phase, keys, setupCalls, now, fault>>

\* A call of verify_activity(&self, &activity_data); it reads the clock, which
\* never runs backwards.
VerifyActivityCall ==
    /\ phase = "Operational"
    /\ \E t \in ClockValues : t >= now /\ now' = t
    /\ \E activity_data \in Records :
         LET obs == verify_activity(keys, activity_data, now', fault)
         IN  /\ last' = obs
             /\ first' = IF first.seen /\ first.data = activity_data THEN first
                         ELSE [seen |-> TRUE, data |-> activity_data, now |-> now',
                               result |-> obs.result]
    /\ UNCHANGED <<phase, keys, setupCalls, fault>>

Next == New \/ GenerateProofCall \/ VerifyProofCall \/ VerifyActivityCall

Spec == Init /\ [][Next]_vars

\* ------------------------------------------------------------- properties

\* The freshness policy: a timestamp is fresh when it is not older than
\* 30 days at the clock reading.
Fresh(ts, clock) == ts >= clock - FreshDays * SecsPerDay * TicksPerSec

ReachedVerify == last.op = "verify_activity" /\ last.verifyCalls = 1

\* C1: with a complete backend, verify_activity returns true for every record
\* whose timestamp is fresh at the call; so it does for a record stamped now
\* with the digest hash("valid_activity").
C1_FreshRecordAccepted ==
    (last.op = "verify_activity" /\ fault = "none" /\ Fresh(last.data.timestamp, last.now))
        => (last.returned = "value" /\ last.result)

C1_Witness ==
    /\ last.op = "verify_activity"
    /\ fault = "none"
    /\ last.data.timestamp = last.now
    /\ last.data.activity_hash = hash_activity("valid_activity")
    /\ last.result

\* C2: the gate of verify_activity lets a timestamp t through exactly when
\* t >= now - 30 days; a record it stops is answered false.
C2_FreshnessGate ==
    last.op = "verify_activity"
        => /\ (last.cause # "stale") <=> Fresh(last.data.timestamp, last.now)
           /\ last.cause = "stale" => (last.returned = "value" /\ ~last.result)

C2_Witness ==
    /\ last.op = "verify_activity"
    /\ last.data.timestamp = last.now - Duration_days(FreshDays)
    /\ last.cause # "stale"
    /\ last.proveCalls = 1

\* C3: a call of verify_activity on a stale record returns false having
\* called neither proof generation nor backend verification.
C3_StaleShortCircuits ==
    (last.op = "verify_activity" /\ ~Fresh(last.data.timestamp, last.now))
        => /\ last.returned = "value" /\ ~last.result
           /\ last.proveCalls = 0
           /\ last.verifyCalls = 0

C3_Witness ==
    /\ last.op = "verify_activity"
    /\ last.data.timestamp = last.now - Duration_days(FreshDays + 1)
    /\ ~last.result
    /\ last.proveCalls = 0

\* C4: verify_activity and verify_proof always return a boolean, never an
\* error; staleness, a failed proof generation, a backend verification error
\* and a rejection all return false, and true is returned for an accepted
\* proof only.
C4_FailuresCollapseToFalse ==
    last.op \in {"verify_activity", "verify_proof"}
        => /\ last.returned = "value"
           /\ last.result \in BOOLEAN
           /\ last.cause \in {"stale", "prove_failed", "verify_error", "rejected", "accepted"}
           /\ last.result <=> (last.cause = "accepted")

C4_Witness ==
    /\ last.op = "verify_activity"
    /\ last.cause = "verify_error"
    /\ last.returned = "value"
    /\ ~last.result

\* C5: the vector verify_activity hands to verification is, entry by entry
\* and in the order [timestamp, activity_digest], the public part of the
\* circuit generate_proof built for the record: the same u64 timestamp, and
\* the same digest reduced below the modulus.
C5_PublicInputsMatchCircuit ==
    ReachedVerify
        => /\ Len(last.public_inputs) = 2
           /\ last.public_inputs[1] = FrFromU64(last.circuit.timestamp)
           /\ last.public_inputs[2] = last.circuit.activity_hash
           /\ ~GeqBytes(last.public_inputs[2], FrModulusBytes)

C5_Witness ==
    /\ ReachedVerify
    /\ GeqBytes(last.data.activity_hash, FrModulusBytes)
    /\ last.data.timestamp < 0
    /\ last.public_inputs[2] # last.data.activity_hash

SwappedCall ==
    /\ last.op = "verify_proof"
    /\ last.order = "swapped"
    /\ last.proof # NoProof

\* C6 as stated: verify_proof returns false for every proof of generate_proof
\* when the two public inputs are swapped.
C6_SwappedRejected == SwappedCall => ~last.result

\* C6, amended: verify_proof returns false for a proof of generate_proof when
\* the two public inputs are swapped and differ from each other.
C6_SwappedDistinctRejected ==
    (SwappedCall /\ last.public_inputs[1] # last.public_inputs[2]) => ~last.result

C6_Witness ==
    /\ SwappedCall
    /\ fault = "none"
    /\ last.public_inputs[1] # last.public_inputs[2]
    /\ ~last.result

Repeated ==
    /\ last.op = "verify_activity"
    /\ first.seen
    /\ first.data = last.data

\* C7 as stated: every repeated call of verify_activity on one record returns
\* what the first call returned.
C7_RepeatedCallsAgree == Repeated => (last.result = first.result)

\* C7, amended: a repeated call of verify_activity on one record returns what
\* the first call returned whenever the record is as fresh at it as it was at
\* the first call, at every clock reading; and with a complete backend an
\* honestly generated proof verifies to true.
C7_RepeatedCallsAgreeWhileFresh ==
    /\ (Repeated /\ Fresh(last.data.timestamp, last.now) = Fresh(first.data.timestamp, first.now))
           => (last.result = first.result)
    /\ last.op = "verify_activity"
           => \A t \in ClockValues :
                Fresh(last.data.timestamp, t) = Fresh(last.data.timestamp, last.now)
                    => verify_activity(keys, last.data, t, fault).result = last.result
    /\ (ReachedVerify /\ fault = "none") => last.result

C7_Witness ==
    /\ Repeated
    /\ first.now < last.now
    /\ Fresh(last.data.timestamp, last.now)
    /\ first.result
    /\ last.result

\* C8: an operational verifier has run exactly one setup, holds the key pair
\* of that setup, and every proof was generated and verified under it.
C8_SingleSetup ==
    /\ phase = "Init" => (setupCalls = 0 /\ keys = NoKeys)
    /\ phase = "Operational"
           => /\ setupCalls = 1
              /\ keys = [proving_key |-> ParamsOf(1),
                         verifying_key |-> prepare_verifying_key(ParamsOf(1).vk)]
              /\ last.proveCalls = 1 => last.proving_key = keys.proving_key
              /\ last.verifyCalls = 1 => last.verifying_key = keys.verifying_key
              /\ last.proof # NoProof => last.proof.key = keys.proving_key.id

C8_Witness ==
    /\ phase = "Operational"
    /\ last.op = "verify_proof"
    /\ last.result
    /\ setupCalls = 1

\* C9: when the setup fails no verifier exists: the phase is not Operational,
\* there are no keys, and no call was made; every call was made on a verifier
\* holding keys.
C9_SetupFailureFatal ==
    /\ fault = "setup" => (phase # "Operational" /\ keys = NoKeys /\ last = NoCall)
    /\ phase = "Aborted" => fault = "setup"
    /\ last.op # "none" => (phase = "Operational" /\ keys # NoKeys)

C9_Witness == phase = "Aborted" /\ setupCalls = 1

\* C10: the result of verify_activity is the same for every user_commitment
\* the record might carry instead, timestamp, digest, verifier and clock
\* being equal.
C10_CommitmentIndependent ==
    last.op = "verify_activity"
        => \A c \in Commitments :
             verify_activity(keys, [last.data EXCEPT !.user_commitment = c],
                             last.now, fault).result = last.result

C10_Witness ==
    /\ last.op = "verify_activity"
    /\ last.data.user_commitment = One32
    /\ last.data.activity_hash = Zero32
    /\ last.result

====
